---- MODULE Spec2Model ----
(***************************************************************************)
(* A model of the 1-bit quantizer / dequantizer scripts of classd_simu:    *)
(*   quantizer.py              rmse, quantize, dequantize,                 *)
(*                             reduce_frequency, demo (the offset search)  *)
(*   delta_sigma_quantizer.py  rmse, quantize_delta_sigma,                 *)
(*                             dequantize_delta_sigma, demo (the round     *)
(*                             trip)                                       *)
(*                                                                         *)
(* One behaviour of the model is one call of one of these functions: fn    *)
(* names the function, the other variables are its arguments and locals,   *)
(* and pc is its position.  A loop of the source advances by one iteration *)
(* per step.  A call ends with pc = "done" (it returned) or with           *)
(* pc = "raised" and exc naming the exception.                             *)
(*                                                                         *)
(* Numbers.  The modulators work on integers and are modelled exactly:     *)
(* quantize on the integers themselves, quantize_delta_sigma on multiples  *)
(* of 1/32 (numpy.interp between integer samples 32 apart yields exactly   *)
(* those, and binary floating point adds them without rounding), held as   *)
(* integers in units of 1/32.  The leaky integrators of the dequantizers,  *)
(* the samples they return and the value of rmse are Python floats, IEEE   *)
(* 754 doubles: the model holds a double as its sign, its 53-bit           *)
(* significand and its exponent, and computes every sum, product, quotient *)
(* and square root as the hardware does, the exact result rounded to the   *)
(* nearest double, ties to even.  Infinities, nan as an operand, -0.0 and  *)
(* subnormal numbers do not arise from the inputs of the model and are not *)
(* represented.                                                            *)
(***************************************************************************)
EXTENDS Integers, Sequences, FiniteSets, TLC

----------------------------------------------------------------------------
(* Program constants *)

\* _OVERSAMPLE
OVERSAMPLE == 32

\* bit15 = 1 << 15, the magnitude of a pulse
FULLSCALE == 32768

\* window_length of reduce_frequency
window_length == 32

\* range(150) of demo's offset search
OFFSETS == 150

\* k = 0.0253 of dequantize, as K_NUM / K_DEN
K_NUM == 253

K_DEN == 10000

\* k = 0.15 of dequantize_delta_sigma, as DS_K_NUM / DS_K_DEN
DS_K_NUM == 15

DS_K_DEN == 100

\* PadValue as a low pulse
PadLow == 0 - 32768

\* numpy.pad's default constant_values
PadValue == 0

----------------------------------------------------------------------------
(* Bounds of the model *)

\* longest signal given to a modulator and to rmse
MaxLen == 2

\* longest data given to demo
MaxData == 2

\* longest pulse stream given to a dequantizer or to reduce_frequency
MaxPulses == 66

\* longest period of the periodic pulse streams
MaxPeriod == 4

----------------------------------------------------------------------------
(* Inputs *)

\* sample values of the signals given to the modulators
Samples == {-32768, -100, 0, 100, 32767}

\* sample values of the data given to demo
DemoSamples == {0, 10000}

SeqsUpTo(S, n) == UNION {[1..k -> S] : k \in 0..n}

\* the concrete scenario of the specification
Scenario == <<0, 100, -100, 0>>

Signals == SeqsUpTo(Samples, MaxLen) \cup {Scenario}

\* the pulse stream of length n whose pulse t (from 0) is low when
\* (t + ph) % p < d, and high otherwise
Pattern(n, p, d, ph) ==
    [t \in 1..n |-> IF (t - 1 + ph) % p < d THEN -FULLSCALE ELSE FULLSCALE]

PulseLengths == (0..3) \cup {31, 32, 33} \cup ((MaxPulses - 3)..MaxPulses)

PulseStreams ==
    {Pattern(n, p, d, ph) :
        n \in PulseLengths, p \in 1..MaxPeriod, d \in 0..MaxPeriod, ph \in 0..1}

----------------------------------------------------------------------------
(* Arithmetic helpers *)

\* [v] * n
Repeat(v, n) == [t \in 1..n |-> v]

\* number of positions of s, among those of P that s has, that hold v
Count(s, P, v) == Cardinality({t \in P \cap DOMAIN s : s[t] = v})

----------------------------------------------------------------------------
(* Python floats: IEEE 754 doubles.  A double is a record [neg, exp, man]   *)
(* of value (-1)^neg * man * 2^exp, its significand man held as 4 limbs of *)
(* 14 bits, least significant first, with bit 52 set; 0.0 is FZero.        *)

\* a limb holds 14 bits of a significand
Limb == 16384

\* 2^k at position k + 1
Pow2 ==
    <<1, 2, 4, 8, 16, 32, 64, 128, 256, 512, 1024, 2048, 4096, 8192, 16384,
      32768, 65536, 131072, 262144, 524288, 1048576, 2097152, 4194304,
      8388608, 16777216, 33554432, 67108864, 134217728, 268435456>>

\* the leading bit of a significand, bit 52, in its limb 4
TopBit == 1024

\* number of bits of a limb v
LimbLen(v) ==
    IF v >= 128
    THEN IF v >= 2048
         THEN IF v >= 8192 THEN 14 ELSE IF v >= 4096 THEN 13 ELSE 12
         ELSE IF v >= 512 THEN IF v >= 1024 THEN 11 ELSE 10
              ELSE IF v >= 256 THEN 9 ELSE 8
    ELSE IF v >= 8
         THEN IF v >= 32 THEN IF v >= 64 THEN 7 ELSE 6
              ELSE IF v >= 16 THEN 5 ELSE 4
         ELSE IF v >= 2 THEN IF v >= 4 THEN 3 ELSE 2
              ELSE v

\* the highest limb of the 5 limbs r that is not 0, 1 if none is
TopLimb(r) ==
    IF r[5] # 0 THEN 5 ELSE IF r[4] # 0 THEN 4 ELSE IF r[3] # 0 THEN 3
    ELSE IF r[2] # 0 THEN 2 ELSE 1

\* number of bits of the 5 limbs r, j its highest limb
BitLenFrom(r, j) == 14 * (j - 1) + LimbLen(r[j])

\* number of bits of the 5 limbs r
BitLen(r) == BitLenFrom(r, TopLimb(r))

\* limb j of r, 0 outside r
LimbAt(r, j) == IF j < 1 \/ j > Len(r) THEN 0 ELSE r[j]

\* limb j of r * 2^(14 * w) * lo, where lo * hi = Limb
LeftLimb(r, j, w, lo, hi) ==
    (LimbAt(r, j - w) % hi) * lo + LimbAt(r, j - w - 1) \div hi

\* limb j of floor(r / (2^(14 * w) * lo)), where lo * hi = Limb
RightLimb(r, j, w, lo, hi) ==
    LimbAt(r, j + w) \div lo + (LimbAt(r, j + w + 1) % lo) * hi

\* the low 4 limbs of r * 2^(14 * w) * lo, where lo * hi = Limb
ShiftLeftBy(r, w, lo, hi) ==
    <<LeftLimb(r, 1, w, lo, hi), LeftLimb(r, 2, w, lo, hi),
      LeftLimb(r, 3, w, lo, hi), LeftLimb(r, 4, w, lo, hi)>>

\* the low 4 limbs of r * 2^s
ShiftLeft(r, s) ==
    ShiftLeftBy(r, s \div 14, Pow2[(s % 14) + 1], Pow2[15 - (s % 14)])

\* the low 4 limbs of floor(r / (2^(14 * w) * lo)), where lo * hi = Limb
ShiftRightBy(r, w, lo, hi) ==
    <<RightLimb(r, 1, w, lo, hi), RightLimb(r, 2, w, lo, hi),
      RightLimb(r, 3, w, lo, hi), RightLimb(r, 4, w, lo, hi)>>

\* the low 4 limbs of floor(r / 2^s)
ShiftRight(r, s) ==
    ShiftRightBy(r, s \div 14, Pow2[(s % 14) + 1], Pow2[15 - (s % 14)])

\* the significand q plus one
Successor(q) ==
    IF q[1] + 1 < Limb THEN <<q[1] + 1, q[2], q[3], q[4]>>
    ELSE IF q[2] + 1 < Limb THEN <<0, q[2] + 1, q[3], q[4]>>
    ELSE IF q[3] + 1 < Limb THEN <<0, 0, q[3] + 1, q[4]>>
    ELSE <<0, 0, 0, q[4] + 1>>

\* v with its bit 0 set when sticky: the bits dropped below v were not all 0
Jam(v, sticky) == IF sticky /\ v % 2 = 0 THEN v + 1 ELSE v

FZero == [neg |-> FALSE, exp |-> 0, man |-> <<0, 0, 0, 0>>]

IsZero(x) == x.man[4] = 0

\* the double (-1)^neg * q1 * 2^e of a rounded significand q1, which is 2^53
\* when the rounding carried out of bit 52
Carried(neg, q1, e) ==
    IF q1[4] >= 2 * TopBit
    THEN [neg |-> neg, exp |-> e + 1, man |-> <<0, 0, 0, TopBit>>]
    ELSE [neg |-> neg, exp |-> e, man |-> q1]

\* q * 2^e plus the dropped fraction rem / (2 * half) of its last place,
\* rounded to nearest, ties to even
RoundOff(neg, q, rem, half, e) ==
    Carried(neg,
            IF rem > half \/ (rem = half /\ q[1] % 2 = 1)
            THEN Successor(q) ELSE q,
            e)

\* Round for r of len bits
RoundBits(neg, r, e, len) ==
    IF len = 0 THEN FZero
    ELSE IF len <= 53
    THEN [neg |-> neg, exp |-> e - (53 - len), man |-> ShiftLeft(r, 53 - len)]
    ELSE RoundOff(neg, ShiftRight(r, len - 53),
                  (r[1] + r[2] * Limb) % Pow2[len - 52], Pow2[len - 53],
                  e + (len - 53))

\* the double nearest to (-1)^neg * r * 2^e, ties to even; r has 5 limbs, and
\* at most 27 bits more than a significand
Round(neg, r, e) == RoundBits(neg, r, e, BitLen(r))

\* int -> double, for |n| < 2^31
FromInt(n) ==
    LET a == IF n < 0 THEN -n ELSE n
    IN Round(n < 0, <<a % Limb, (a \div Limb) % Limb, a \div (Limb * Limb), 0, 0>>, 0)

FNeg(x) == IF IsZero(x) THEN x ELSE [x EXCEPT !.neg = ~x.neg]

FAbs(x) == [x EXCEPT !.neg = FALSE]

\* |x| < |y|
MagLess(x, y) ==
    IF IsZero(y) THEN FALSE
    ELSE IF IsZero(x) THEN TRUE
    ELSE IF x.exp # y.exp THEN x.exp < y.exp
    ELSE IF x.man[4] # y.man[4] THEN x.man[4] < y.man[4]
    ELSE IF x.man[3] # y.man[3] THEN x.man[3] < y.man[3]
    ELSE IF x.man[2] # y.man[2] THEN x.man[2] < y.man[2]
    ELSE x.man[1] < y.man[1]

\* x < y
FLess(x, y) ==
    IF x.neg # y.neg THEN x.neg
    ELSE IF x.neg THEN MagLess(y, x) ELSE MagLess(x, y)

\* x <= y
FLeq(x, y) == ~FLess(y, x)

\* the 5 limbs of floor(y5 / (2^(14 * w) * lo)), where lo * hi = Limb and
\* the limb 1 of y5 is 0, the bits that fall off jammed into bit 0
AlignedBy(y5, w, lo, hi) ==
    <<Jam(RightLimb(y5, 1, w, lo, hi),
          \/ LimbAt(y5, w + 1) % lo # 0
          \/ (w >= 2 /\ y5[2] # 0)
          \/ (w >= 3 /\ y5[3] # 0)),
      RightLimb(y5, 2, w, lo, hi), RightLimb(y5, 3, w, lo, hi),
      RightLimb(y5, 4, w, lo, hi), RightLimb(y5, 5, w, lo, hi)>>

\* the 5 limbs of y * 2^14 / 2^d for 0 <= d <= 55, the bits that fall off
\* jammed into bit 0
Aligned(y, d) ==
    AlignedBy(<<0, y[1], y[2], y[3], y[4]>>,
              d \div 14, Pow2[(d % 14) + 1], Pow2[15 - (d % 14)])

\* the 5 limbs of a * 2^14 + sg * b, for 4 limbs a, 5 limbs b <= a * 2^14 and
\* sg = 1 or -1
AddLimbs(a, b, sg) ==
    LET t1 == sg * b[1]
        t2 == a[1] + sg * b[2] + t1 \div Limb
        t3 == a[2] + sg * b[3] + t2 \div Limb
        t4 == a[3] + sg * b[4] + t3 \div Limb
        t5 == a[4] + sg * b[5] + t4 \div Limb
    IN <<t1 % Limb, t2 % Limb, t3 % Limb, t4 % Limb, t5>>

\* x + y of |x| >= |y|, neither zero
AddOrdered(x, y) ==
    IF x.exp - y.exp > 55 THEN x
    ELSE Round(x.neg,
               AddLimbs(x.man, Aligned(y.man, x.exp - y.exp),
                        IF x.neg = y.neg THEN 1 ELSE -1),
               x.exp - 14)

\* x + y
FAdd(x, y) ==
    IF IsZero(x) THEN y
    ELSE IF IsZero(y) THEN x
    ELSE AddOrdered(IF MagLess(x, y) THEN y ELSE x,
                    IF MagLess(x, y) THEN x ELSE y)

\* x - y
FSub(x, y) == FAdd(x, FNeg(y))

\* the 8 limbs of the product of the significands a and b
BigMul(a, b) ==
    LET t1 == a[1] * b[1]
        t2 == a[1] * b[2] + a[2] * b[1] + t1 \div Limb
        t3 == a[1] * b[3] + a[2] * b[2] + a[3] * b[1] + t2 \div Limb
        t4 == a[1] * b[4] + a[2] * b[3] + a[3] * b[2] + a[4] * b[1] + t3 \div Limb
        t5 == a[2] * b[4] + a[3] * b[3] + a[4] * b[2] + t4 \div Limb
        t6 == a[3] * b[4] + a[4] * b[3] + t5 \div Limb
        t7 == a[4] * b[4] + t6 \div Limb
    IN <<t1 % Limb, t2 % Limb, t3 % Limb, t4 % Limb, t5 % Limb, t6 % Limb,
         t7 % Limb, t7 \div Limb>>

\* the high 5 limbs of the 8 limbs p, the low 3 jammed into bit 0
High5(p) ==
    <<Jam(p[4], p[1] # 0 \/ p[2] # 0 \/ p[3] # 0), p[5], p[6], p[7], p[8]>>

\* x * y
FMul(x, y) ==
    IF IsZero(x) \/ IsZero(y) THEN FZero
    ELSE Round(x.neg # y.neg, High5(BigMul(x.man, y.man)), x.exp + y.exp + 42)

\* the 5 limbs of floor(m * 2^31 / n) for a significand m and n in 1..16383,
\* by long division, a remainder jammed into bit 0
DivLimbs(m, n) ==
    LET d6 == m[3] \div 2048 + m[4] * 8
        d5 == (d6 % n) * Limb + m[2] \div 2048 + (m[3] % 2048) * 8
        d4 == (d5 % n) * Limb + m[1] \div 2048 + (m[2] % 2048) * 8
        d3 == (d4 % n) * Limb + (m[1] % 2048) * 8
        d2 == (d3 % n) * Limb
        d1 == (d2 % n) * Limb
    IN <<Jam(d2 \div n, d1 # 0), d3 \div n, d4 \div n, d5 \div n, d6 \div n>>

\* x / n for an integer n in 1..16383
FDivInt(x, n) ==
    IF IsZero(x) THEN FZero
    ELSE Round(x.neg, DivLimbs(x.man, n), x.exp - 17)

\* x < y for 8 limbs, compared from limb j down
RECURSIVE BigLess(_, _, _)
BigLess(x, y, j) ==
    IF j = 0 THEN FALSE
    ELSE IF x[j] # y[j] THEN x[j] < y[j]
    ELSE BigLess(x, y, j - 1)

\* s with its bit b set
WithBit(s, b) == [s EXCEPT ![b \div 14 + 1] = @ + Pow2[(b % 14) + 1]]

\* c if c * c <= m, else s
Keep(m, s, c) == IF BigLess(m, BigMul(c, c), 8) THEN s ELSE c

RECURSIVE SqrtBits(_, _, _)
\* the integer square root of the 8 limbs m, bit by bit from bit b down, s
\* holding the bits found
SqrtBits(m, b, s) ==
    IF b < 0 \/ Len(s) = 0 THEN s
    ELSE SqrtBits(m, b - 1, Keep(m, s, WithBit(s, b)))

\* the 8 limbs of a * 2^56 * lo, where lo * hi = Limb
Scaled(a, lo, hi) ==
    <<0, 0, 0, 0, (a[1] % hi) * lo, (a[2] % hi) * lo + a[1] \div hi,
      (a[3] % hi) * lo + a[2] \div hi, (a[4] % hi) * lo + a[3] \div hi>>

\* the double nearest to sqrt(m) * 2^e, s the integer square root of m
SqrtRound(m, s, e) ==
    Round(FALSE, <<Jam(s[1], BigMul(s, s) # m), s[2], s[3], s[4], 0>>, e)

\* the double nearest to sqrt(m) * 2^e
SqrtScaled(m, e) == SqrtRound(m, SqrtBits(m, 54, <<0, 0, 0, 0>>), e)

\* numpy.sqrt of x >= 0: the integer square root of x.man * 2^k, k = 56 or 57
\* making the exponent even
FSqrt(x) ==
    IF IsZero(x) THEN FZero
    ELSE SqrtScaled(Scaled(x.man, Pow2[(x.exp % 2) + 1], Pow2[15 - (x.exp % 2)]),
                    (x.exp - (x.exp % 2)) \div 2 - 28)

\* 1.0
FOne == FromInt(1)

\* sys.float_info.max = (2^53 - 1) * 2^971
FLOAT_MAX == [neg |-> FALSE, exp |-> 971, man |-> <<16383, 16383, 16383, 2047>>]

\* the float literal num / den, the double nearest to that fraction
Literal(num, den) == FDivInt(FromInt(num), den)

\* numpy.asarray of a sequence of integers, as doubles
Floats(seq) == [t \in 1..Len(seq) |-> FromInt(seq[t])]

----------------------------------------------------------------------------
(* quantizer.py: quantize *)

\* QuantOut with the sign of inp taken three ways, 0 for inp = 0
QuantOutSign(inp) ==
    IF inp > 0 THEN FULLSCALE ELSE IF inp < 0 THEN -FULLSCALE ELSE 0

\* QuantOut with the comparison inp > 0
QuantOutStrict(inp) == IF inp > 0 THEN FULLSCALE ELSE -FULLSCALE

\* out = bit15 if inp >= 0 else -bit15
QuantOut(inp) == IF inp >= 0 THEN FULLSCALE ELSE -FULLSCALE

\* extrapolated_v = 3 * signal[i] - 2 * signal[i + 1], i counted from 0
ExtrapolatedV(sig, k) == 3 * sig[k + 1] - 2 * sig[k + 2]

\* QuantizeStep with the error of the pass before dropped
QuantizeStepNoCarry(st, x) ==
    LET inp == x + st.error
        out == QuantOut(inp)
    IN [rep |-> st.rep + 1, error |-> x - out, retval |-> Append(st.retval, out)]

\* one pass of the inner loop, lines 61-64, on the value x; st holds the
\* locals rep (the count of the inner loop), error and retval
QuantizeStep(st, x) ==
    LET inp == x + st.error
        out == QuantOut(inp)
    IN [rep |-> st.rep + 1, error |-> inp - out, retval |-> Append(st.retval, out)]

RECURSIVE QuantizeInner(_, _)
\* the inner loop, lines 60-64, from the pass st.rep on
QuantizeInner(x, st) ==
    IF st.rep >= OVERSAMPLE THEN st
    ELSE QuantizeInner(x, QuantizeStep(st, x))

RECURSIVE QuantizeOuter(_, _, _)
\* the outer loop, lines 53-64, from its pass k on
QuantizeOuter(sig, k, st) ==
    IF k >= Len(sig) - 1 THEN st.retval
    ELSE QuantizeOuter(sig, k + 1,
             QuantizeInner(ExtrapolatedV(sig, k), [st EXCEPT !.rep = 0]))

\* TailPulses with out appended once instead of _OVERSAMPLE times
TailPulsesOnce(sig) == <<QuantOut(sig[Len(sig)])>>

\* lines 68-70: the pulses appended after the loop, [out] * _OVERSAMPLE
TailPulses(sig) == Repeat(QuantOut(sig[Len(sig)]), OVERSAMPLE)

\* quantize(signal) of a signal that is not empty, as one value
quantize(sig) ==
    QuantizeOuter(sig, 0, [rep |-> 0, error |-> 0, retval |-> <<>>])
        \o TailPulses(sig)

----------------------------------------------------------------------------
(* delta_sigma_quantizer.py: quantize_delta_sigma *)

\* signal_ovs[x] = numpy.interp(x, xp, sig)[x], xp = 0, 32, 64, ...; x is
\* counted from 0 and the value is in units of 1/32
SignalOvs(sig, x) ==
    LET n == Len(sig)
        j == x \div OVERSAMPLE
    IN IF x >= OVERSAMPLE * (n - 1)
       THEN OVERSAMPLE * sig[n]
       ELSE OVERSAMPLE * sig[j + 1]
                + (sig[j + 2] - sig[j + 1]) * (x - OVERSAMPLE * j)

\* Delta with the feedback inverted: d_minus_plus = [bit15, -bit15]
DeltaInverted(integrator2_prev) ==
    IF integrator2_prev > 0 THEN -FULLSCALE ELSE FULLSCALE

\* Delta with the comparison integrator2_prev >= 0
DeltaNonStrict(integrator2_prev) ==
    IF integrator2_prev >= 0 THEN FULLSCALE ELSE -FULLSCALE

\* delta = d_minus_plus[integrator2_prev > 0]
Delta(integrator2_prev) ==
    IF integrator2_prev > 0 THEN FULLSCALE ELSE -FULLSCALE

\* DeltaSigmaStep without the line integrator -= delta
DeltaSigmaStepNoFeedback(st, x) ==
    LET integrator_in == st.integrator + x
        delta == Delta(st.integrator2)
    IN [delta |-> delta,
        integrator |-> integrator_in,
        integrator2 |-> st.integrator2 - OVERSAMPLE * delta + integrator_in]

\* one pass of the loop of quantize_delta_sigma, lines 71-82, on the value
\* x = signal_ovs[i]; st holds the locals integrator and integrator2, all in
\* units of 1/32, and the result carries the pulse delta written to result[i]
DeltaSigmaStep(st, x) ==
    LET integrator_in == st.integrator + x
        integrator2_prev == st.integrator2
        delta == Delta(integrator2_prev)
        integrator_out == integrator_in - OVERSAMPLE * delta
    IN [delta |-> delta,
        integrator |-> integrator_out,
        integrator2 |-> st.integrator2 - OVERSAMPLE * delta + integrator_out]

RECURSIVE DeltaSigmaLoop(_, _, _, _)
\* the passes lo..hi (i from 0) of the loop of quantize_delta_sigma, lines
\* 70-82, from the locals st: the first half of them, then the second (the
\* test of half.i has the first half evaluated before the second is entered)
DeltaSigmaLoop(sig, lo, hi, st) ==
    IF lo > hi THEN st
    ELSE IF lo = hi
    THEN LET s == DeltaSigmaStep(st, SignalOvs(sig, lo))
         IN [i |-> st.i + 1,
             integrator |-> s.integrator,
             integrator2 |-> s.integrator2,
             result |-> [st.result EXCEPT ![lo + 1] = s.delta]]
    ELSE LET half == DeltaSigmaLoop(sig, lo, (lo + hi) \div 2, st)
         IN IF half.i > hi THEN half
            ELSE DeltaSigmaLoop(sig, (lo + hi) \div 2 + 1, hi, half)

\* quantize_delta_sigma(sig) of a signal that is not empty, as one value
quantize_delta_sigma(sig) ==
    DeltaSigmaLoop(sig, 0, Len(sig) * OVERSAMPLE - 1,
        [i |-> 0, integrator |-> 0, integrator2 |-> 0,
         result |-> Repeat(0, Len(sig) * OVERSAMPLE)]).result

----------------------------------------------------------------------------
(* dequantize and dequantize_delta_sigma *)

\* k = 0.0253 of dequantize
K == Literal(K_NUM, K_DEN)

\* 1.0 - k of dequantize
KC == FSub(FOne, K)

\* k = 0.15 of dequantize_delta_sigma
DS_K == Literal(DS_K_NUM, DS_K_DEN)

\* kc = 1.0 - k of dequantize_delta_sigma
DS_KC == FSub(FOne, DS_K)

\* Leak without the decay: integrator + k * v
LeakNoDecay(y, v, k, kc) == FAdd(y, FMul(k, v))

\* integrator * (1.0 - k) + k * v, kc being 1.0 - k
Leak(y, v, k, kc) == FAdd(FMul(y, kc), FMul(k, v))

\* EmitDequantize at the first pulse of a block instead of the last
EmitDequantizeFirst(k) == k % OVERSAMPLE = 0

\* if i & (_OVERSAMPLE - 1) == _OVERSAMPLE - 1: for i >= 0 the low five bits
\* of i are i % 32
EmitDequantize(k) == k % OVERSAMPLE = OVERSAMPLE - 1

\* if not (i+1) % _OVERSAMPLE
EmitDeltaSigma(k) == (k + 1) % OVERSAMPLE = 0

\* integrator3 after one pulse, n1 and n2 being the new integrator and
\* integrator2
FilterStep3(y, n1, n2, k, kc) == <<n1, n2, Leak(y[3], n2, k, kc)>>

\* integrator2 and integrator3 after one pulse, n1 being the new integrator
FilterStep2(y, n1, k, kc) == FilterStep3(y, n1, Leak(y[2], n1, k, kc), k, kc)

\* the three integrators <<integrator, integrator2, integrator3>> after one
\* pulse of value v
FilterStep(y, v, k, kc) == FilterStep2(y, Leak(y[1], v, k, kc), k, kc)

\* lines 109-111 of dequantize: the locals after a pass that made the
\* integrators ny and period p
DequantizeEmit(st, ny, p) ==
    IF EmitDequantize(st.i)
    THEN [i |-> st.i + 1, y |-> ny, period |-> FZero,
          retval |-> Append(st.retval, FDivInt(p, OVERSAMPLE))]
    ELSE [i |-> st.i + 1, y |-> ny, period |-> p, retval |-> st.retval]

\* lines 108-111 of dequantize: period += integrator3, then the sample
DequantizeSum(st, ny) == DequantizeEmit(st, ny, FAdd(st.period, ny[3]))

\* one pass of the loop of dequantize, lines 105-111, on the pulse v; st
\* holds the locals i, the integrators y, period and retval
DequantizeStep(st, v) == DequantizeSum(st, FilterStep(st.y, FromInt(v), K, KC))

\* DequantizeDeltaSigmaEmit with every sample written to retval[0]
DequantizeDeltaSigmaEmitSlot0(st, ny, p) ==
    IF EmitDeltaSigma(st.i)
    THEN [i |-> st.i + 1, y |-> ny, period |-> FZero,
          retval |-> [st.retval EXCEPT ![1] = FDivInt(p, OVERSAMPLE)]]
    ELSE [i |-> st.i + 1, y |-> ny, period |-> p, retval |-> st.retval]

\* lines 123-125 of dequantize_delta_sigma: the locals after a pass that
\* made the integrators ny and period p
DequantizeDeltaSigmaEmit(st, ny, p) ==
    IF EmitDeltaSigma(st.i)
    THEN [i |-> st.i + 1, y |-> ny, period |-> FZero,
          retval |-> [st.retval EXCEPT
                        ![((st.i + 1) \div OVERSAMPLE - 1) + 1] =
                            FDivInt(p, OVERSAMPLE)]]
    ELSE [i |-> st.i + 1, y |-> ny, period |-> p, retval |-> st.retval]

\* lines 122-125 of dequantize_delta_sigma: period += integrator3, then the
\* sample
DequantizeDeltaSigmaSum(st, ny) ==
    DequantizeDeltaSigmaEmit(st, ny, FAdd(st.period, ny[3]))

\* one pass of the loop of dequantize_delta_sigma, lines 118-125
DequantizeDeltaSigmaStep(st, v) ==
    DequantizeDeltaSigmaSum(st, FilterStep(st.y, FromInt(v), DS_K, DS_KC))

RECURSIVE DequantizeLoop(_, _, _, _)
\* the passes lo..hi (i from 0) of the loop of dequantize from the locals st:
\* the first half of them, then the second (the test of half.i has the first
\* half evaluated before the second is entered)
DequantizeLoop(sig, lo, hi, st) ==
    IF lo > hi THEN st
    ELSE IF lo = hi THEN DequantizeStep(st, sig[lo + 1])
    ELSE LET half == DequantizeLoop(sig, lo, (lo + hi) \div 2, st)
         IN IF half.i > hi THEN half
            ELSE DequantizeLoop(sig, (lo + hi) \div 2 + 1, hi, half)

\* dequantize(signal), as one value
dequantize(sig) ==
    DequantizeLoop(sig, 0, Len(sig) - 1,
        [i |-> 0, y |-> <<FZero, FZero, FZero>>, period |-> FZero,
         retval |-> <<>>]).retval

RECURSIVE DequantizeDeltaSigmaLoop(_, _, _, _)
\* the passes lo..hi (i from 0) of the loop of dequantize_delta_sigma from
\* the locals st, halved as in DequantizeLoop
DequantizeDeltaSigmaLoop(sig, lo, hi, st) ==
    IF lo > hi THEN st
    ELSE IF lo = hi THEN DequantizeDeltaSigmaStep(st, sig[lo + 1])
    ELSE LET half == DequantizeDeltaSigmaLoop(sig, lo, (lo + hi) \div 2, st)
         IN IF half.i > hi THEN half
            ELSE DequantizeDeltaSigmaLoop(sig, (lo + hi) \div 2 + 1, hi, half)

\* dequantize_delta_sigma(signal), as one value
dequantize_delta_sigma(sig) ==
    DequantizeDeltaSigmaLoop(sig, 0, Len(sig) - 1,
        [i |-> 0, y |-> <<FZero, FZero, FZero>>, period |-> FZero,
         retval |-> Repeat(FZero, Len(sig) \div OVERSAMPLE)]).retval

----------------------------------------------------------------------------
(* quantizer.py: reduce_frequency *)

\* target_length = -(-signal.size // window_length) * window_length
TargetLength(size) == -((-size) \div window_length) * window_length

\* padded_signal = numpy.pad(signal, [(0, target_length - signal.size)])
PaddedSignal(sig) ==
    sig \o Repeat(PadValue, TargetLength(Len(sig)) - Len(sig))

\* LowCount counting the high pulses, windowed_signal == bit15
HighCount(padded, w) ==
    Cardinality({t \in (w * window_length + 1)..((w + 1) * window_length) :
                    padded[t] = FULLSCALE})

\* (windowed_signal == -bit15).sum(axis=-1) of window w (from 0)
LowCount(padded, w) ==
    Count(padded, (w * window_length + 1)..(w * window_length + window_length),
          -FULLSCALE)

\* reduce_frequency with the low pulses of a window put last
reduce_frequency_low_last(sig) ==
    LET padded == PaddedSignal(sig)
    IN [t \in 1..Len(padded) |->
          IF (t - 1) % window_length
                 >= window_length - LowCount(padded, (t - 1) \div window_length)
          THEN -FULLSCALE ELSE FULLSCALE]

\* numpy.where(arange(window_length) < low count, -bit15, bit15), ravelled
reduce_frequency(sig) ==
    LET padded == PaddedSignal(sig)
    IN [t \in 1..Len(padded) |->
          IF (t - 1) % window_length
                 < LowCount(padded, (t - 1) \div window_length)
          THEN -FULLSCALE ELSE FULLSCALE]

----------------------------------------------------------------------------
(* rmse (the same in both files) *)

\* the shape numpy broadcasts two one-dimensional arrays of lengths m and n
\* to: -1 when it cannot
BroadcastLen(m, n) ==
    IF m = n THEN m
    ELSE IF m = 1 THEN n
    ELSE IF n = 1 THEN m
    ELSE -1

\* element t of a broadcast: a one-element array repeats its element
Broadcast(a, t) == IF Len(a) = 1 THEN a[1] ELSE a[t]

\* d ** 2
Square(d) == FMul(d, d)

RECURSIVE SumSqDiff(_, _, _, _)
\* acc plus the sum over positions t..n of (a - b) ** 2, a and b broadcast
\* to length n, added in the order of the positions
SumSqDiff(a, b, t, acc) ==
    IF t > BroadcastLen(Len(a), Len(b)) THEN acc
    ELSE SumSqDiff(a, b, t + 1,
                   FAdd(acc, Square(FSub(Broadcast(a, t), Broadcast(b, t)))))

\* numpy.sqrt(numpy.mean((asarray(original) - asarray(reproduction))**2)) of
\* two sequences of doubles: a double, nan (the mean of no element), or the
\* ValueError of operands that cannot be broadcast together.  numpy.mean adds
\* fewer than 8 elements one after the other and divides by their number
rmse(orig, repro) ==
    LET n == BroadcastLen(Len(orig), Len(repro))
    IN IF n < 0 THEN [kind |-> "raise", val |-> FZero]
       ELSE IF n = 0 THEN [kind |-> "nan", val |-> FZero]
       ELSE [kind |-> "value",
             val |-> FSqrt(FDivInt(SumSqDiff(orig, repro, 1, FZero), n))]

----------------------------------------------------------------------------
(* numpy.roll(a, shift) of a one-dimensional array *)

Roll(a, shift) ==
    [t \in 1..Len(a) |-> a[((t - 1 - shift) % Len(a)) + 1]]

----------------------------------------------------------------------------
(* State: one call of one function *)

VARIABLES
    fn,             \* the function called; "demo" is the demo of quantizer.py,
                    \*   "delta_sigma_demo" that of delta_sigma_quantizer.py
    pc,             \* its position: a loop, "tail", "done" or "raised"
    exc,            \* the exception it raised, "none" when it raised none
    signal,         \* the argument signal (sig in quantize_delta_sigma)
    original,       \* rmse's original
    reproduction,   \* rmse's reproduction
    data,           \* demo's data, as read from the wave file
    i,              \* the index of the running loop (from 0)
    rep,            \* quantize: the count of the inner loop (from 0)
    error,          \* quantize: error
    integrator,     \* the integrators: integers in units of 1/32 in
    integrator2,    \*   quantize_delta_sigma, doubles in the dequantizers
    integrator3,    \*   (0 in the other calls)
    period,         \* the dequantizers' period, a double
    retval,         \* retval, the list or array returned
    result,         \* quantize_delta_sigma's result; demo's result
    rmse_ret,       \* what rmse returned
    result_quant,   \* demo's result_quant
    offset,         \* demo's offset
    min_rmse,       \* demo's min_rmse
    min_offset,     \* demo's min_offset
    printed         \* a demo's standard output, one tuple per print

args == <<signal, original, reproduction, data>>

loopVars == <<i, rep, error, integrator, integrator2, integrator3, period>>

demoVars == <<result_quant, offset, min_rmse, min_offset, printed>>

vars == <<fn, pc, exc, args, loopVars, retval, result, rmse_ret, demoVars>>

\* the value of every variable a call does not use, but for the integrators
Idle ==
    /\ exc = "none"
    /\ i = 0 /\ rep = 0 /\ error = 0
    /\ rmse_ret = [kind |-> "none", val |-> FZero]
    /\ result_quant = <<>> /\ offset = 0
    /\ min_rmse = FZero /\ min_offset = 0 /\ printed = <<>>

\* the integrators and period of a call that is no dequantizer
NoFilter ==
    integrator = 0 /\ integrator2 = 0 /\ integrator3 = 0 /\ period = 0

\* lines 89-91 and 103: the integrators and period of a dequantizer start at
\* 0, which its first pass takes as a double
FilterAtZero ==
    /\ integrator = FZero /\ integrator2 = FZero /\ integrator3 = FZero
    /\ period = FZero

NoArgsBut(used) ==
    /\ IF "signal" \in used THEN TRUE ELSE signal = <<>>
    /\ IF "original" \in used THEN TRUE ELSE original = <<>>
    /\ IF "reproduction" \in used THEN TRUE ELSE reproduction = <<>>
    /\ IF "data" \in used THEN TRUE ELSE data = <<>>

----------------------------------------------------------------------------
(* quantize(signal), quantizer.py lines 41-71 *)

InitQuantize ==
    /\ fn = "quantize"
    /\ signal \in Signals
    /\ NoArgsBut({"signal"})
    /\ retval = <<>> /\ result = <<>>
    /\ pc = IF Len(signal) - 1 > 0 THEN "loop" ELSE "tail"
    /\ Idle
    /\ NoFilter

\* one pass of the inner loop, lines 60-64, in pass i of the outer loop
Quantize_Loop ==
    /\ fn = "quantize" /\ pc = "loop"
    /\ LET s == QuantizeStep([rep |-> rep, error |-> error, retval |-> retval],
                              ExtrapolatedV(signal, i))
       IN /\ error' = s.error
          /\ retval' = s.retval
          /\ rep' = s.rep % OVERSAMPLE
    /\ i' = IF rep + 1 = OVERSAMPLE THEN i + 1 ELSE i
    /\ pc' = IF rep + 1 = OVERSAMPLE /\ i + 1 >= Len(signal) - 1
             THEN "tail" ELSE "loop"
    /\ UNCHANGED <<fn, exc, args, integrator, integrator2, integrator3,
                   period, result, rmse_ret, demoVars>>

\* lines 68-71: signal[len(signal) - 1] of an empty signal is signal[-1],
\* an IndexError
Quantize_Tail ==
    /\ fn = "quantize" /\ pc = "tail"
    /\ IF Len(signal) = 0
       THEN /\ exc' = "IndexError"
            /\ pc' = "raised"
            /\ UNCHANGED retval
       ELSE /\ retval' = retval \o TailPulses(signal)
            /\ pc' = "done"
            /\ UNCHANGED exc
    /\ UNCHANGED <<fn, args, loopVars, result, rmse_ret, demoVars>>

----------------------------------------------------------------------------
(* quantize_delta_sigma(sig), delta_sigma_quantizer.py lines 41-84 *)

InitDeltaSigma ==
    /\ fn = "quantize_delta_sigma"
    /\ signal \in Signals
    /\ NoArgsBut({"signal"})
    /\ retval = <<>> /\ result = <<>>
    /\ pc = "setup"
    /\ Idle
    /\ NoFilter

\* lines 51-68: result = numpy.zeros(len(sig) * _OVERSAMPLE), and the
\* interpolation; numpy.interp raises ValueError ("array of sample points is
\* empty") when xp is empty
DeltaSigma_Setup ==
    /\ fn = "quantize_delta_sigma" /\ pc = "setup"
    /\ result' = Repeat(0, Len(signal) * OVERSAMPLE)
    /\ IF Len(signal) = 0
       THEN exc' = "ValueError" /\ pc' = "raised"
       ELSE exc' = exc /\ pc' = "loop"
    /\ UNCHANGED <<fn, args, loopVars, retval, rmse_ret, demoVars>>

\* one pass of the loop, lines 70-82
DeltaSigma_Loop ==
    /\ fn = "quantize_delta_sigma" /\ pc = "loop"
    /\ LET s == DeltaSigmaStep([integrator |-> integrator,
                                integrator2 |-> integrator2],
                               SignalOvs(signal, i))
       IN /\ result' = [result EXCEPT ![i + 1] = s.delta]
          /\ integrator' = s.integrator
          /\ integrator2' = s.integrator2
    /\ i' = i + 1
    /\ pc' = IF i + 1 >= Len(signal) * OVERSAMPLE THEN "return" ELSE "loop"
    /\ UNCHANGED <<fn, exc, args, rep, error, integrator3, period, retval,
                   rmse_ret, demoVars>>

\* line 84
DeltaSigma_Return ==
    /\ fn = "quantize_delta_sigma" /\ pc = "return"
    /\ retval' = result
    /\ pc' = "done"
    /\ UNCHANGED <<fn, exc, args, loopVars, result, rmse_ret, demoVars>>

----------------------------------------------------------------------------
(* dequantize(signal), quantizer.py lines 74-112 *)

\* the pulse streams given to the dequantizers and to reduce_frequency
Streams == PulseStreams \cup {quantize(Scenario)}

InitDequantize ==
    /\ fn = "dequantize"
    /\ signal \in Streams
    /\ NoArgsBut({"signal"})
    /\ retval = <<>> /\ result = <<>>
    /\ pc = IF Len(signal) > 0 THEN "loop" ELSE "return"
    /\ Idle
    /\ FilterAtZero

\* one pass of the loop, lines 104-111 (\E s \in {e} names the value of e, as
\* LET s == e does, and has it computed once)
Dequantize_Loop ==
    /\ fn = "dequantize" /\ pc = "loop"
    /\ \E s \in {DequantizeStep(
                    [i |-> i, y |-> <<integrator, integrator2, integrator3>>,
                     period |-> period, retval |-> retval],
                    signal[i + 1])} :
          /\ integrator' = s.y[1]
          /\ integrator2' = s.y[2]
          /\ integrator3' = s.y[3]
          /\ period' = s.period
          /\ retval' = s.retval
          /\ i' = s.i
    /\ pc' = IF i + 1 >= Len(signal) THEN "return" ELSE "loop"
    /\ UNCHANGED <<fn, exc, args, rep, error, result, rmse_ret, demoVars>>

\* line 112
Dequantize_Return ==
    /\ fn = "dequantize" /\ pc = "return"
    /\ pc' = "done"
    /\ UNCHANGED <<fn, exc, args, loopVars, retval, result, rmse_ret, demoVars>>

----------------------------------------------------------------------------
(* dequantize_delta_sigma(signal), delta_sigma_quantizer.py lines 87-126 *)

\* line 98: retval = numpy.zeros(len(signal) // _OVERSAMPLE)
InitDequantizeDeltaSigma ==
    /\ fn = "dequantize_delta_sigma"
    /\ signal \in Streams
    /\ NoArgsBut({"signal"})
    /\ retval = Repeat(FZero, Len(signal) \div OVERSAMPLE) /\ result = <<>>
    /\ pc = IF Len(signal) > 0 THEN "loop" ELSE "return"
    /\ Idle
    /\ FilterAtZero

\* one pass of the loop, lines 117-125
DequantizeDeltaSigma_Loop ==
    /\ fn = "dequantize_delta_sigma" /\ pc = "loop"
    /\ \E s \in {DequantizeDeltaSigmaStep(
                    [i |-> i, y |-> <<integrator, integrator2, integrator3>>,
                     period |-> period, retval |-> retval],
                    signal[i + 1])} :
          /\ integrator' = s.y[1]
          /\ integrator2' = s.y[2]
          /\ integrator3' = s.y[3]
          /\ period' = s.period
          /\ retval' = s.retval
          /\ i' = s.i
    /\ pc' = IF i + 1 >= Len(signal) THEN "return" ELSE "loop"
    /\ UNCHANGED <<fn, exc, args, rep, error, result, rmse_ret, demoVars>>

\* line 126
DequantizeDeltaSigma_Return ==
    /\ fn = "dequantize_delta_sigma" /\ pc = "return"
    /\ pc' = "done"
    /\ UNCHANGED <<fn, exc, args, loopVars, retval, result, rmse_ret, demoVars>>

----------------------------------------------------------------------------
(* reduce_frequency(signal), quantizer.py lines 115-139 *)

InitReduceFrequency ==
    /\ fn = "reduce_frequency"
    /\ signal \in Streams
    /\ NoArgsBut({"signal"})
    /\ retval = <<>> /\ result = <<>>
    /\ pc = "call"
    /\ Idle
    /\ NoFilter

ReduceFrequency_Call ==
    /\ fn = "reduce_frequency" /\ pc = "call"
    /\ retval' = reduce_frequency(signal)
    /\ pc' = "done"
    /\ UNCHANGED <<fn, exc, args, loopVars, result, rmse_ret, demoVars>>

----------------------------------------------------------------------------
(* rmse(original, reproduction), lines 26-38 of both files *)

\* sample values of the sequences given to rmse
RmseSamples == {-10000, 0, 10000}

RmseArgs == SeqsUpTo(RmseSamples, MaxLen + 1)

InitRmse ==
    /\ fn = "rmse"
    /\ original \in RmseArgs
    /\ reproduction \in RmseArgs
    /\ NoArgsBut({"original", "reproduction"})
    /\ retval = <<>> /\ result = <<>>
    /\ pc = "call"
    /\ Idle
    /\ NoFilter

Rmse_Call ==
    /\ fn = "rmse" /\ pc = "call"
    /\ \E r \in {rmse(Floats(original), Floats(reproduction))} :
          IF r.kind = "raise"
          THEN exc' = "ValueError" /\ pc' = "raised" /\ UNCHANGED rmse_ret
          ELSE rmse_ret' = r /\ pc' = "done" /\ UNCHANGED exc
    /\ UNCHANGED <<fn, args, loopVars, retval, result, demoVars>>

----------------------------------------------------------------------------
(* demo(), quantizer.py lines 142-186.  Reading and writing the wave files  *)
(* is outside the model: data is what was read, and result_min_rmse, which *)
(* is only written to a file, is left out.  As in the loops above,         *)
(* \E x \in {e} names the value of e.                                      *)

InitDemo ==
    /\ fn = "demo"
    /\ data \in SeqsUpTo(DemoSamples, MaxData)
    /\ NoArgsBut({"data"})
    /\ retval = <<>> /\ result = <<>>
    /\ pc = "start"
    /\ Idle
    /\ NoFilter

\* RmseLess with <= for <
RmseLessEq(r, m) == r.kind = "value" /\ FLeq(r.val, m)

\* curr_rmse < min_rmse: a comparison with nan is false
RmseLess(r, m) == r.kind = "value" /\ FLess(r.val, m)

\* lines 154-164; quantize raises IndexError on empty data
Demo_Start ==
    /\ fn = "demo" /\ pc = "start"
    /\ IF Len(data) = 0
       THEN /\ exc' = "IndexError" /\ pc' = "raised"
            /\ UNCHANGED <<result_quant, result, printed, min_rmse>>
       ELSE \E q \in {quantize(data)} :
            \E d \in {dequantize(q)} :
            \E r \in {rmse(Floats(data), d)} :
               /\ result_quant' = q
               /\ result' = d
               /\ IF r.kind = "raise"
                  THEN /\ exc' = "ValueError" /\ pc' = "raised"
                       /\ UNCHANGED <<printed, min_rmse>>
                  ELSE /\ printed' = Append(printed, <<"Rmse is", r>>)
                       /\ min_rmse' = FLOAT_MAX
                       /\ pc' = "search"
                       /\ UNCHANGED exc
    /\ UNCHANGED <<fn, args, loopVars, retval, rmse_ret, offset, min_offset>>

\* one pass of the search loop, lines 165-171; offset is the value range(150)
\* yields in this pass
Demo_Search ==
    /\ fn = "demo" /\ pc = "search"
    /\ \E offset_result \in {Roll(result_quant, -offset)} :
       \E curr_rmse \in {rmse(Floats(data), dequantize(offset_result))} :
          IF curr_rmse.kind = "raise"
          THEN /\ exc' = "ValueError" /\ pc' = "raised"
               /\ UNCHANGED <<printed, min_rmse, min_offset, offset>>
          ELSE /\ printed' = Append(printed, <<"iteration", offset, curr_rmse>>)
               /\ IF RmseLess(curr_rmse, min_rmse)
                  THEN min_rmse' = curr_rmse.val /\ min_offset' = offset
                  ELSE UNCHANGED <<min_rmse, min_offset>>
               /\ offset' = offset + 1
               /\ pc' = IF offset + 1 >= OFFSETS THEN "finish" ELSE "search"
               /\ UNCHANGED exc
    /\ UNCHANGED <<fn, args, loopVars, retval, result, rmse_ret, result_quant>>

\* lines 173-186
Demo_Finish ==
    /\ fn = "demo" /\ pc = "finish"
    /\ \E result_quant_reduced \in {reduce_frequency(result_quant)} :
       \E result_reduced \in {dequantize(result_quant_reduced)} :
       \E r \in {rmse(Floats(data), SubSeq(result_reduced, 1, Len(data)))} :
          IF r.kind = "raise"
          THEN exc' = "ValueError" /\ pc' = "raised" /\ UNCHANGED printed
          ELSE /\ printed' = printed \o
                    << <<"Offset that minimizes rmse is", min_offset>>,
                       <<"Minimumm rmse is", min_rmse>>,
                       <<"RMSE of signal with frequency reduction", r>> >>
               /\ pc' = "done"
               /\ UNCHANGED exc
    /\ UNCHANGED <<fn, args, loopVars, retval, result, rmse_ret, result_quant,
                   offset, min_rmse, min_offset>>

----------------------------------------------------------------------------
(* demo(), delta_sigma_quantizer.py lines 129-143.  Reading and writing    *)
(* the wave files is outside the model: data is what was read.             *)

InitDeltaSigmaDemo ==
    /\ fn = "delta_sigma_demo"
    /\ data \in SeqsUpTo(DemoSamples, MaxData)
    /\ NoArgsBut({"data"})
    /\ retval = <<>> /\ result = <<>>
    /\ pc = "start"
    /\ Idle
    /\ NoFilter

\* min(len(data), len(result))
MinLength(m, n) == IF m <= n THEN m ELSE n

\* line 134: the two arrays have one length, and the mean of no element is
\* nan
DeltaSigmaDemo_Start ==
    /\ fn = "delta_sigma_demo" /\ pc = "start"
    /\ \E r \in {rmse(Floats(data), Repeat(FZero, Len(data)))} :
          printed' = Append(printed, <<"RMS value of signal", r>>)
    /\ pc' = "roundtrip"
    /\ UNCHANGED <<fn, exc, args, loopVars, retval, result, rmse_ret,
                   result_quant, offset, min_rmse, min_offset>>

\* lines 136-142; quantize_delta_sigma raises ValueError on empty data
DeltaSigmaDemo_RoundTrip ==
    /\ fn = "delta_sigma_demo" /\ pc = "roundtrip"
    /\ IF Len(data) = 0
       THEN /\ exc' = "ValueError" /\ pc' = "raised"
            /\ UNCHANGED <<result_quant, result, printed>>
       ELSE \E q \in {quantize_delta_sigma(data)} :
            \E d \in {dequantize_delta_sigma(q)} :
            \E min_length \in {MinLength(Len(data), Len(d))} :
            \E r \in {rmse(Floats(SubSeq(data, 1, min_length)),
                           SubSeq(d, 1, min_length))} :
               /\ result_quant' = q
               /\ result' = d
               /\ IF r.kind = "raise"
                  THEN /\ exc' = "ValueError" /\ pc' = "raised"
                       /\ UNCHANGED printed
                  ELSE /\ printed' = Append(printed, <<"RMS error", r>>)
                       /\ pc' = "done"
                       /\ UNCHANGED exc
    /\ UNCHANGED <<fn, args, loopVars, retval, rmse_ret, offset, min_rmse,
                   min_offset>>

----------------------------------------------------------------------------
(* The specification *)

Init ==
    \/ InitQuantize
    \/ InitDeltaSigma
    \/ InitDequantize
    \/ InitDequantizeDeltaSigma
    \/ InitReduceFrequency
    \/ InitRmse

Next ==
    \/ Quantize_Loop
    \/ Quantize_Tail
    \/ DeltaSigma_Setup
    \/ DeltaSigma_Loop
    \/ DeltaSigma_Return
    \/ Dequantize_Loop
    \/ Dequantize_Return
    \/ DequantizeDeltaSigma_Loop
    \/ DequantizeDeltaSigma_Return
    \/ ReduceFrequency_Call
    \/ Rmse_Call

\* a call of one of the functions
Spec == Init /\ [][Next]_vars

InitDemos ==
    \/ InitDemo
    \/ InitDeltaSigmaDemo

NextDemo ==
    \/ Demo_Start
    \/ Demo_Search
    \/ Demo_Finish
    \/ DeltaSigmaDemo_Start
    \/ DeltaSigmaDemo_RoundTrip

\* a run of one of the two demos
SpecDemo == InitDemos /\ [][NextDemo]_vars

\* the call has ended
Ended == pc \in {"done", "raised"}

Returned == pc = "done"

----------------------------------------------------------------------------
(* Properties *)

Modulators == {"quantize", "quantize_delta_sigma"}

Dequantizers == {"dequantize", "dequantize_delta_sigma"}

\* the positions (from 1) of window w (from 0)
Window(w) == (w * window_length + 1)..(w * window_length + window_length)

\* C1: every value returned by quantize, by quantize_delta_sigma and by
\* reduce_frequency (the positions of a padded last window included) is
\* +FULLSCALE or -FULLSCALE.
C1_PulsesAreFullScale ==
    (Returned /\ fn \in Modulators \cup {"reduce_frequency"})
        => \A t \in DOMAIN retval : retval[t] \in {FULLSCALE, -FULLSCALE}

\* reduce_frequency returned a stream whose last window was padded
C1_Witness ==
    /\ fn = "reduce_frequency" /\ Returned
    /\ Len(signal) % window_length # 0
    /\ Len(retval) > Len(signal)

\* C2: called with an empty signal, each of quantize, quantize_delta_sigma,
\* dequantize, dequantize_delta_sigma and reduce_frequency returns an empty
\* sequence and raises no error.
C2_EmptySignalReturnsEmpty ==
    (Ended /\ Len(signal) = 0
           /\ fn \in Modulators \cup Dequantizers \cup {"reduce_frequency"})
        => (pc = "done" /\ exc = "none" /\ retval = <<>>)

\* C3: reduce_frequency preserves the number of low pulses of every window:
\* the output positions of window w hold as many -FULLSCALE as the input
\* positions of that window.
C3_LowCountPreserved ==
    (fn = "reduce_frequency" /\ Returned /\ Len(signal) >= 1)
        => \A w \in 0..((Len(signal) - 1) \div window_length) :
              Count(retval, Window(w), -FULLSCALE)
                  = Count(signal, Window(w), -FULLSCALE)

\* reduce_frequency returned from a stream whose last window is partial and
\* holds pulses of both kinds
C3_Witness ==
    /\ fn = "reduce_frequency" /\ Returned
    /\ Len(signal) > window_length
    /\ Len(signal) % window_length # 0
    /\ LET last == Window((Len(signal) - 1) \div window_length)
       IN /\ Count(signal, last, -FULLSCALE) > 0
          /\ Count(signal, last, FULLSCALE) > 0

\* C4: when the stream length n is not a multiple of 32, the output has
\* ceil(n/32)*32 pulses, its last window holds as many +FULLSCALE as the last
\* n mod 32 input pulses, and as many -FULLSCALE as they do plus the pad count.
C4_PadCountsAsLow ==
    (fn = "reduce_frequency" /\ Returned /\ Len(signal) % window_length # 0)
        => LET n == Len(signal)
               r == n % window_length
               lastIn == (n - r + 1)..n
               lastOut == (Len(retval) - window_length + 1)..Len(retval)
           IN /\ Len(retval) = ((n + window_length - 1) \div window_length)
                                   * window_length
              /\ Count(retval, lastOut, FULLSCALE)
                     = Count(signal, lastIn, FULLSCALE)
              /\ Count(retval, lastOut, -FULLSCALE)
                     = Count(signal, lastIn, -FULLSCALE) + (window_length - r)

\* C5: a dequantizer returns floor(M/32) samples of a stream of M pulses.
\* In every state the samples emitted number (pulses consumed) div 32, and
\* dequantize_delta_sigma's array, of floor(M/32) entries from the start, is
\* still 0.0 beyond them.  Every pass of either loop that consumes the last
\* pulse of a block (pulse 31, 63, ...) writes one sample, period plus the
\* new integrator3 divided by 32, at the position after the samples emitted
\* before it, starts period again at 0.0 and leaves every other entry as it
\* was; every other pass, those of the trailing M mod 32 pulses included,
\* and the return leave retval unchanged.
C5_OneSamplePerBlock ==
    /\ [](fn \in Dequantizers =>
            /\ i <= Len(signal)
            /\ Returned => (i = Len(signal)
                            /\ Len(retval) = Len(signal) \div OVERSAMPLE)
            /\ fn = "dequantize" => Len(retval) = i \div OVERSAMPLE
            /\ fn = "dequantize_delta_sigma" =>
                  /\ Len(retval) = Len(signal) \div OVERSAMPLE
                  /\ \A q \in DOMAIN retval :
                        q > i \div OVERSAMPLE => retval[q] = FZero)
    /\ [][(fn \in Dequantizers) =>
           (IF pc = "loop" /\ (i + 1) % OVERSAMPLE = 0
            THEN /\ i' = i + 1
                 /\ Len(retval') = IF fn = "dequantize" THEN Len(retval) + 1
                                                        ELSE Len(retval)
                 /\ i \div OVERSAMPLE + 1 \in DOMAIN retval'
                 /\ retval'[i \div OVERSAMPLE + 1]
                        = FDivInt(FAdd(period, integrator3'), OVERSAMPLE)
                 /\ period' = FZero
                 /\ \A q \in DOMAIN retval :
                        q # i \div OVERSAMPLE + 1 => retval'[q] = retval[q]
            ELSE retval' = retval)]_vars

\* dequantize returned from two complete blocks and a remainder, both
\* samples written
C5_Witness ==
    /\ fn = "dequantize" /\ Returned
    /\ Len(signal) > 2 * OVERSAMPLE
    /\ Len(signal) % OVERSAMPLE # 0
    /\ Len(retval) = 2
    /\ retval[1] # FZero /\ retval[2] # FZero
    /\ retval[1] # retval[2]

\* C6: of a signal of N >= 1 samples, quantize and quantize_delta_sigma
\* return 32*N pulses; the 4 samples [0, 100, -100, 0] give 128 pulses, which
\* dequantize to 4 samples.
C6_ModulatorLength ==
    /\ (Returned /\ fn \in Modulators /\ Len(signal) >= 1)
           => Len(retval) = OVERSAMPLE * Len(signal)
    /\ (Returned /\ fn = "dequantize" /\ signal = quantize(Scenario))
           => (Len(signal) = 128 /\ Len(retval) = 4)

\* quantize returned from the scenario
C6_Witness ==
    /\ fn = "quantize" /\ Returned
    /\ signal = Scenario
    /\ Len(retval) = 128

\* C7: rmse of two sequences of different lengths m, n >= 1 fails with a
\* length-mismatch error and never returns a number.
C7_RmseLengthMismatchFails ==
    (fn = "rmse" /\ Ended
         /\ Len(original) >= 1 /\ Len(reproduction) >= 1
         /\ Len(original) # Len(reproduction))
        => (pc = "raised" /\ exc = "ValueError")

\* the line demo printed for offset o: <<"iteration", o, curr_rmse>>
IterationLine(o) == printed[o + 2]

\* C8: the search evaluates every offset 0..149 once, in increasing order and
\* to the end; the RMSE it reports is at most the RMSE computed at every
\* offset, and the offset it reports is the smallest one with that RMSE.
C8_SearchReportsFirstMinimum ==
    (fn = "demo" /\ pc \in {"finish", "done"})
        => /\ offset = OFFSETS
           /\ Len(printed) >= OFFSETS + 1
           /\ \A o \in 0..(OFFSETS - 1) :
                 /\ IterationLine(o)[1] = "iteration"
                 /\ IterationLine(o)[2] = o
                 /\ IterationLine(o)[3].kind = "value"
                 /\ FLeq(min_rmse, IterationLine(o)[3].val)
                 /\ o < min_offset => FLess(min_rmse, IterationLine(o)[3].val)
           /\ min_offset \in 0..(OFFSETS - 1)
           /\ IterationLine(min_offset)[3].val = min_rmse
           /\ pc = "done" =>
                 /\ Len(printed) = OFFSETS + 4
                 /\ printed[OFFSETS + 2]
                        = <<"Offset that minimizes rmse is", min_offset>>
                 /\ printed[OFFSETS + 3] = <<"Minimumm rmse is", min_rmse>>

\* demo ended with a minimum that is below the RMSE at offset 0 and that a
\* later offset reaches again
C8_Witness ==
    /\ fn = "demo" /\ pc = "done"
    /\ min_offset > 0
    /\ FLess(min_rmse, IterationLine(0)[3].val)
    /\ \E o \in (min_offset + 1)..(OFFSETS - 1) :
          IterationLine(o)[3].val = min_rmse

\* the sum of the values the loop of quantize is fed before pulse t (from 0),
\* the last sample held after the last pair
RECURSIVE FedBefore(_, _)
FedBefore(sig, t) ==
    IF t = 0 THEN 0
    ELSE LET u == t - 1
             k == u \div OVERSAMPLE
         IN FedBefore(sig, u - (u % OVERSAMPLE))
                + ((u % OVERSAMPLE) + 1)
                    * (IF k < Len(sig) - 1 THEN 3 * sig[k + 1] - 2 * sig[k + 2]
                                           ELSE sig[Len(sig)])

\* the error the feedback rule carries into pulse t (from 0): what was fed
\* before it minus the pulses out emitted before it
ErrorBefore(sig, out, t) ==
    FedBefore(sig, t)
        - FULLSCALE * (Count(out, 1..t, FULLSCALE) - Count(out, 1..t, -FULLSCALE))

\* pulse t (from 0) of out is the one the feedback rule gives for the value x
ByFeedbackRule(sig, out, t, x) ==
    out[t + 1] = IF x + ErrorBefore(sig, out, t) >= 0 THEN FULLSCALE
                                                      ELSE -FULLSCALE

\* C10 as claimed: every pulse of quantize, each of the last 32 (for which
\* the last sample is held) included, is given by the feedback rule
\* inp = x + error, out = +FULLSCALE if inp >= 0 else -FULLSCALE,
\* error = inp - out.
C10_EveryPulseByFeedbackRule ==
    (fn = "quantize" /\ Returned /\ Len(signal) >= 1)
        => LET n == Len(signal)
           IN /\ Len(retval) = OVERSAMPLE * n
              /\ \A t \in 0..(OVERSAMPLE * n - 1) :
                    ByFeedbackRule(signal, retval, t,
                        IF t < OVERSAMPLE * (n - 1)
                        THEN 3 * signal[t \div OVERSAMPLE + 1]
                                 - 2 * signal[t \div OVERSAMPLE + 2]
                        ELSE signal[n])

\* C10 as amended: every pulse but the last 32 is given by the feedback rule
\* on x = 3*s[i] - 2*s[i+1]; each of the last 32 pulses is +FULLSCALE if
\* s[N-1] >= 0 and -FULLSCALE otherwise, whatever the error carried.
C10_FeedbackRuleButLastBlock ==
    (fn = "quantize" /\ Returned /\ Len(signal) >= 1)
        => LET n == Len(signal)
           IN /\ Len(retval) = OVERSAMPLE * n
              /\ \A t \in 0..(OVERSAMPLE * (n - 1) - 1) :
                    ByFeedbackRule(signal, retval, t,
                        3 * signal[t \div OVERSAMPLE + 1]
                            - 2 * signal[t \div OVERSAMPLE + 2])
              /\ \A t \in (OVERSAMPLE * (n - 1))..(OVERSAMPLE * n - 1) :
                    retval[t + 1] = IF signal[n] >= 0 THEN FULLSCALE
                                                      ELSE -FULLSCALE

\* quantize returned pulses of both kinds by the rule, and a last block that
\* the rule would not give
C10_Witness ==
    /\ fn = "quantize" /\ Returned
    /\ Len(signal) >= 2
    /\ \E t \in 1..(OVERSAMPLE * (Len(signal) - 1) - 1) :
          retval[t] # retval[t + 1]
    /\ \E t \in (OVERSAMPLE * (Len(signal) - 1))..(OVERSAMPLE * Len(signal) - 1) :
          ~ByFeedbackRule(signal, retval, t, signal[Len(signal)])

\* C11: in quantize_delta_sigma the pulse of step n is decided by the value
\* integrator2 had at the end of step n - 1 (0 before the first step) and by
\* nothing step n updates: +FULLSCALE exactly when that value is > 0,
\* -FULLSCALE otherwise (also when it is 0); a pulse once written is not
\* rewritten, and the first pulse is -FULLSCALE for every input.
C11_PulseFromPreviousIntegrator2 ==
    /\ []((fn = "quantize_delta_sigma" /\ pc \in {"loop", "return", "done"}
              /\ i >= 1)
            => (result[1] = -FULLSCALE /\ (pc = "done" => retval = result)))
    /\ [][(fn = "quantize_delta_sigma" /\ pc = "loop")
            => /\ i' = i + 1
               /\ result'[i + 1] = (IF integrator2 > 0 THEN FULLSCALE
                                                       ELSE -FULLSCALE)
               /\ \A t \in 1..i : result'[t] = result[t]]_vars

\* integrator2 before the pass that wrote pulse i of quantize_delta_sigma,
\* from the locals after it (units of 1/32)
Integrator2Before == integrator2 - integrator + OVERSAMPLE * result[i]

\* a pass after the first found integrator2 at exactly 0 and wrote
\* -FULLSCALE, after pulses of both kinds
C11_Witness ==
    /\ fn = "quantize_delta_sigma" /\ pc = "loop"
    /\ i >= 3
    /\ Integrator2Before = 0
    /\ result[i] = -FULLSCALE
    /\ \E t \in 2..(i - 1) : result[t] = FULLSCALE

Abs(x) == IF x < 0 THEN -x ELSE x

\* one full-scale unit of the accumulators of quantize_delta_sigma, which the
\* model keeps in units of 1/32
AccUnit == OVERSAMPLE * FULLSCALE

\* quantize_delta_sigma is in or after its loop, i passes done
InDeltaSigmaLoop ==
    fn = "quantize_delta_sigma" /\ pc \in {"loop", "return", "done"}

\* every sample of sig is v
ConstantSignal(sig, v) == Len(sig) >= 1 /\ \A j \in DOMAIN sig : sig[j] = v

\* the largest multiple of FULLSCALE below the number of passes of the loop on
\* the longest signal: a bound that does not depend on the length of the
\* input is in particular a bound for the signals one sample longer than it
\* allows for
StabilityBound == (MaxLen * OVERSAMPLE - 1) * FULLSCALE

\* C12 as claimed: the accumulators of quantize_delta_sigma stay within a
\* bound B fixed independently of the length of the input: |integrator| <= B
\* and |integrator2| <= B after every step, for inputs of magnitude at most
\* FULLSCALE.
C12_AccumulatorsBounded ==
    (InDeltaSigmaLoop /\ \A j \in DOMAIN signal : Abs(signal[j]) <= FULLSCALE)
        => /\ Abs(integrator) <= OVERSAMPLE * StabilityBound
           /\ Abs(integrator2) <= OVERSAMPLE * StabilityBound

\* C12 as amended: the accumulators have no bound independent of the length.
\* After n steps on inputs of magnitude at most FULLSCALE,
\* |integrator| <= 2*n*FULLSCALE and |integrator2| <= n*(n+2)*FULLSCALE; on
\* the constant input -FULLSCALE, integrator = -2*FULLSCALE and
\* integrator2 = -n*FULLSCALE after every step n >= 2; on silence the loop
\* is bounded, |integrator| <= FULLSCALE and |integrator2| <= 2*FULLSCALE.
C12_AccumulatorsGrowWithLength ==
    InDeltaSigmaLoop
        => /\ Abs(integrator) <= 2 * i * AccUnit
           /\ (Abs(integrator2) + AccUnit - 1) \div AccUnit <= i * (i + 2)
           /\ (ConstantSignal(signal, -FULLSCALE) /\ i >= 2)
                  => (integrator = -2 * AccUnit /\ integrator2 = -i * AccUnit)
           /\ ConstantSignal(signal, 0)
                  => (Abs(integrator) <= AccUnit /\ Abs(integrator2) <= 2 * AccUnit)

\* the loop ran to the end of the longest constant signal -FULLSCALE, and
\* integrator2 is beyond StabilityBound
C12_Witness ==
    /\ InDeltaSigmaLoop
    /\ ConstantSignal(signal, -FULLSCALE)
    /\ i = MaxLen * OVERSAMPLE
    /\ integrator2 = -i * AccUnit
    /\ Abs(integrator2) > OVERSAMPLE * StabilityBound

\* the passes of the outer loop of quantize that have fed a value so far
FedPasses == 0..((Len(retval) - 1) \div OVERSAMPLE)

\* C13: in the loop of quantize, as long as every value fed,
\* 3*s[i] - 2*s[i+1], has magnitude at most FULLSCALE, the carried error
\* satisfies -FULLSCALE <= error < FULLSCALE after every step.
C13_ErrorWithinFullScale ==
    (fn = "quantize" /\ pc \in {"loop", "tail"} /\ Len(retval) >= 1
        /\ \A k \in FedPasses : Abs(ExtrapolatedV(signal, k)) <= FULLSCALE)
        => (-FULLSCALE <= error /\ error < FULLSCALE)

\* the error is in the upper half of its range after pulses of both kinds,
\* every value fed being within full scale and other than 0
C13_Witness ==
    /\ fn = "quantize" /\ pc = "loop"
    /\ \A k \in FedPasses : /\ Abs(ExtrapolatedV(signal, k)) <= FULLSCALE
                             /\ ExtrapolatedV(signal, k) # 0
    /\ \E t, u \in DOMAIN retval : retval[t] = FULLSCALE /\ retval[u] = -FULLSCALE
    /\ error >= FULLSCALE \div 2

\* the windows (from 0) of a stream of n pulses, n a multiple of 32
Windows(n) == 0..(n \div window_length - 1)

\* C14: within every window of 32 of the output of reduce_frequency the low
\* pulses come first: no -FULLSCALE stands after a +FULLSCALE of the same
\* window.
C14_LowsBeforeHighs ==
    (fn = "reduce_frequency" /\ Returned)
        => \A w \in Windows(Len(retval)) :
              \A t, u \in Window(w) :
                  (t < u /\ retval[t] = FULLSCALE) => retval[u] # -FULLSCALE

\* reduce_frequency returned from a stream of more than one window in which
\* a low pulse stood after a high pulse of its window
C14_Witness ==
    /\ fn = "reduce_frequency" /\ Returned
    /\ Len(signal) > window_length
    /\ \E t \in 1..(Len(signal) - 1) :
          /\ t % window_length # 0
          /\ signal[t] = FULLSCALE /\ signal[t + 1] = -FULLSCALE
    /\ retval # PaddedSignal(signal)

\* the sum of the oversampled inputs signal_ovs[0..t-1], in units of 1/32
RECURSIVE OvsBefore(_, _)
OvsBefore(sig, t) ==
    IF t = 0 THEN 0 ELSE OvsBefore(sig, t - 1) + SignalOvs(sig, t - 1)

\* the sum of the pulses out[1..t]
PulseSum(out, t) ==
    FULLSCALE * (Count(out, 1..t, FULLSCALE) - Count(out, 1..t, -FULLSCALE))

\* the number of passes the loop of quantize has made
QuantizeSteps ==
    IF pc = "done" THEN OVERSAMPLE * (Len(signal) - 1) ELSE Len(retval)

\* C15: after every step of the loop of quantize, error is the sum of the
\* values fed so far minus the sum of the pulses emitted so far; after every
\* step of quantize_delta_sigma, integrator is the sum of the oversampled
\* inputs so far minus the sum of the pulses so far.
C15_CumulativeSumIdentity ==
    /\ (fn = "quantize" /\ pc \in {"loop", "tail", "done"} /\ Len(signal) >= 1)
           => error = FedBefore(signal, QuantizeSteps)
                          - PulseSum(retval, QuantizeSteps)
    /\ InDeltaSigmaLoop
           => integrator = OvsBefore(signal, i)
                               - OVERSAMPLE * PulseSum(result, i)

\* quantize_delta_sigma is in the second block of a signal that is not
\* constant, after pulses of both kinds, with an integrator other than 0
C15_Witness ==
    /\ InDeltaSigmaLoop /\ pc = "loop"
    /\ i > OVERSAMPLE
    /\ signal[1] # signal[2]
    /\ PulseSum(result, i) # i * FULLSCALE
    /\ PulseSum(result, i) # -i * FULLSCALE
    /\ integrator # 0

\* the double x lies in [-FULLSCALE, +FULLSCALE]
InRange(x) == FLeq(FAbs(x), FromInt(FULLSCALE))

\* C16: dequantizing a stream of pulses +FULLSCALE / -FULLSCALE, each of the
\* three leaky integrators has magnitude at most FULLSCALE after every step,
\* and so has the running sum of the third over the steps of the current
\* block divided by their number; every sample returned lies in
\* [-FULLSCALE, +FULLSCALE].
C16_DemodulatorWithinFullScale ==
    (fn \in Dequantizers
        /\ \A t \in DOMAIN signal : signal[t] \in {FULLSCALE, -FULLSCALE})
        => /\ InRange(integrator) /\ InRange(integrator2) /\ InRange(integrator3)
           /\ FLeq(FAbs(period), FromInt((i % OVERSAMPLE) * FULLSCALE))
           /\ \A q \in DOMAIN retval : InRange(retval[q])

\* a dequantizer returned a second sample in the upper half of the range,
\* the three integrators following one another towards +FULLSCALE
C16_Witness ==
    /\ fn \in Dequantizers /\ Returned
    /\ Len(retval) >= 2
    /\ FLess(FromInt(FULLSCALE \div 2), retval[2])
    /\ FLess(integrator2, integrator) /\ FLess(integrator3, integrator2)
    /\ FLess(retval[2], integrator3)

\* C17: reduce_frequency is idempotent: applied to its own output, also the
\* output of a stream whose length is not a multiple of 32, it returns that
\* output unchanged.
C17_ReduceFrequencyIdempotent ==
    (fn = "reduce_frequency" /\ Returned)
        => reduce_frequency(retval) = retval

\* reduce_frequency returned, from a stream with a partial last window, a
\* stream that differs from the padded input and has windows of different
\* low counts
C17_Witness ==
    /\ fn = "reduce_frequency" /\ Returned
    /\ Len(signal) % window_length # 0
    /\ Len(signal) > window_length
    /\ \E t \in DOMAIN signal : retval[t] # signal[t]
    /\ LowCount(retval, 0) # LowCount(retval, Len(retval) \div window_length - 1)
    /\ LowCount(retval, 0) \notin {0, window_length \div 2, window_length}

====
